---- MODULE Spec2Model ----
(***************************************************************************)
(* Model of the ZKP-gated payment pipeline: PaymentSystem.processPayment,  *)
(* ZKPProver.generatePaymentProof, the PaymentRules circuit,               *)
(* OnChainZKPVerifier.verifyProofOnChain and the ZKPVerifier contract.     *)
(*                                                                         *)
(* Representation notes.                                                   *)
(*  - A string that the code inspects character by character (an address)  *)
(*    is a sequence of UTF-16 code units.                                  *)
(*  - A JavaScript number that may carry a fraction (an amount) is a       *)
(*    record [whole, frac]: the integer part and the first decimal digit,  *)
(*    i.e. the two parts of its decimal string "whole.frac".               *)
(*  - A 32-bit integer is a pair <<hi, lo>> of 16-bit halves, so that the  *)
(*    wrap-around of the rolling hash is computed exactly.                 *)
(*  - keccak256 is modelled as an injective function: a digest is the      *)
(*    record of the data that was hashed.                                  *)
(***************************************************************************)
EXTENDS Integers, Sequences, FiniteSets, TLC

(***************************************************************************)
(* Bounds of the model                                                     *)
(***************************************************************************)
\* how many times the wall clock may advance by one hour during a run
MaxTicks == 1
\* longest public-signal vector handed directly to verifyProofOnChain
MaxSignals == 4

(***************************************************************************)
(* Input universe                                                          *)
(***************************************************************************)
\* "0xF2431b618B5b02923922c525885DBfFcdb9DE853" (demo rule set, slot 1)
D1 == <<48, 120, 70, 50, 52, 51, 49, 98, 54, 49, 56, 66, 53, 98, 48, 50, 57, 50, 51, 57, 50, 50, 99, 53, 50, 53, 56, 56, 53, 68, 66, 102, 70, 99, 100, 98, 57, 68, 69, 56, 53, 51>>
\* "0xE2F2E032B02584e81437bA8Df18F03d6771F9d23" (demo rule set, slot 2)
D2 == <<48, 120, 69, 50, 70, 50, 69, 48, 51, 50, 66, 48, 50, 53, 56, 52, 101, 56, 49, 52, 51, 55, 98, 65, 56, 68, 102, 49, 56, 70, 48, 51, 100, 54, 55, 55, 49, 70, 57, 100, 50, 51>>
\* "0x1234567890123456789012345678901234567890"
D3 == <<48, 120, 49, 50, 51, 52, 53, 54, 55, 56, 57, 48, 49, 50, 51, 52, 53, 54, 55, 56, 57, 48, 49, 50, 51, 52, 53, 54, 55, 56, 57, 48, 49, 50, 51, 52, 53, 54, 55, 56, 57, 48>>
\* "0x123": a destination that is not a full-length address
ShortAddr == <<48, 120, 49, 50, 51>>
\* "0x0": the literal the prover substitutes for an unused whitelist slot
Placeholder == <<48, 120, 48>>

\* "0xc03648139518a7100a0f204da78f6b0ecb4db314"
K1 == <<48, 120, 99, 48, 51, 54, 52, 56, 49, 51, 57, 53, 49, 56, 97, 55, 49, 48, 48, 97, 48, 102, 50, 48, 52, 100, 97, 55, 56, 102, 54, 98, 48, 101, 99, 98, 52, 100, 98, 51, 49, 52>>
\* "0x0c4523bad50e0d75662ed02b6a7136e7a978faea"
K2 == <<48, 120, 48, 99, 52, 53, 50, 51, 98, 97, 100, 53, 48, 101, 48, 100, 55, 53, 54, 54, 50, 101, 100, 48, 50, 98, 54, 97, 55, 49, 51, 54, 101, 55, 97, 57, 55, 56, 102, 97, 101, 97>>

\* strings the prover hands to addressToNumber
Identifiers == {D1, D2, D3, ShortAddr, Placeholder, K1, K2}

Destinations == {D1, D2, D3, ShortAddr}
Whitelists == {<<D1, D2>>, <<D2, D3, D1>>}

Num(w, f) == [whole |-> w, frac |-> f]
\* 6, 10, 10.5, 15
Amounts == {Num(6, 0), Num(10, 0), Num(10, 5), Num(15, 0)}
MaxAmounts == {10}
HourRanges == {<<9, 18>>}
StartHours == {14, 18, 23}

\* a rule set with four allowed destinations: more than the three the format admits
Malformed == [allowedAddresses |-> <<D1, D2, D3, K1>>, maxAmount |-> 10, allowedHours |-> <<9, 18>>]

RuleSets ==
    [allowedAddresses : Whitelists, maxAmount : MaxAmounts, allowedHours : HourRanges]
        \cup {Malformed}

(***************************************************************************)
(* JavaScript helpers                                                      *)
(***************************************************************************)
\* Date.getHours() of a time counted in hours
getHours(t) == t % 24

\* String.prototype.toLowerCase on one code unit
toLowerCase(c) == IF c >= 65 /\ c <= 90 THEN c + 32 ELSE c

\* parseInt(x.toString()) for a nonnegative number below 1e21: the digits before the point
parseInt(x) == x.whole

\* x <= n for a number x and an integer n
NumLeq(x, n) == x.whole < n \/ (x.whole = n /\ x.frac = 0)

\* Array.prototype.includes
includes(arr, x) == \E i \in DOMAIN arr : arr[i] = x

\* arr[i] || dflt for an array of non-empty strings
ElemOr(arr, i, dflt) == IF i \in DOMAIN arr THEN arr[i] ELSE dflt

\* string order of Array.prototype.sort(): lexicographic on code units
RECURSIVE StrLess(_, _)
StrLess(a, b) ==
    IF b = <<>> THEN FALSE
    ELSE IF a = <<>> THEN TRUE
    ELSE IF Head(a) # Head(b) THEN Head(a) < Head(b)
    ELSE StrLess(Tail(a), Tail(b))

RECURSIVE Insert(_, _)
Insert(x, s) ==
    IF s = <<>> THEN <<x>>
    ELSE IF StrLess(x, Head(s)) THEN <<x>> \o s
    ELSE <<Head(s)>> \o Insert(x, Tail(s))

\* faulty variant of SortStrings: the array is left in presentation order
SortStrings_Unsorted(s) == s

RECURSIVE SortStrings(_)
SortStrings(s) == IF s = <<>> THEN <<>> ELSE Insert(Head(s), SortStrings(Tail(s)))

\* Number.prototype.toString of a nonnegative integer, as code units
RECURSIVE Digits(_)
Digits(n) == IF n < 10 THEN <<48 + n>> ELSE Digits(n \div 10) \o <<48 + (n % 10)>>

(***************************************************************************)
(* ZKPProver.addressToNumber                                               *)
(***************************************************************************)
AddressLength == 42
HalfWord == 2 ^ 16

\* hash = ((hash << 5) - hash) + char; hash = hash & hash  (ToInt32 of 31*hash + char)
HashStep(h, c) ==
    LET lo == 31 * h[2] + c
        hi == 31 * h[1] + (lo \div HalfWord)
    IN  <<hi % HalfWord, lo % HalfWord>>

\* the loop over normalizedAddr[lo..hi], entered with hash value h; the range is
\* split in two so that the evaluation nests only logarithmically deep
RECURSIVE HashFold(_, _, _, _)
HashFold(h, s, lo, hi) ==
    IF lo > hi THEN h
    ELSE IF lo = hi THEN HashStep(h, toLowerCase(s[lo]))
    ELSE LET mid == (lo + hi) \div 2
             left == HashFold(h, s, lo, mid)
         IN  IF left[1] >= 0 THEN HashFold(left, s, mid + 1, hi) ELSE left

\* Math.abs of the signed 32-bit value held in <<hi, lo>>
Abs32(h) ==
    IF h[1] < HalfWord \div 2 THEN h
    ELSE IF h[2] = 0 THEN <<HalfWord - h[1], 0>>
    ELSE <<HalfWord - 1 - h[1], HalfWord - h[2]>>

addressToNumber(addr) ==
    IF Len(addr) < AddressLength THEN <<0, 0>>
    ELSE Abs32(HashFold(<<0, 0>>, addr, 1, Len(addr)))

(***************************************************************************)
(* circomlib gates and comparators                                         *)
(***************************************************************************)
AND(a, b) == a * b
OR(a, b) == a + b - a * b
IsEqual(a, b) == IF a = b THEN 1 ELSE 0

Pow2(n) == 2 ^ n

\* LessThan(n): Num2Bits(n+1) of in0 + 2^n - in1, out = 1 - bit n.
\* -1 stands for "no satisfying witness" (the sum does not fit n+1 bits).
LessThan(n, a, b) ==
    LET v == a + Pow2(n) - b
    IN  IF v < 0 \/ v >= Pow2(n + 1) THEN -1
        ELSE 1 - ((v \div Pow2(n)) % 2)
LessEqThan(n, a, b) == LessThan(n, a, b + 1)
GreaterEqThan(n, a, b) == LessThan(n, b, a + 1)

HourBits == 8

\* TimeConstraintCheck
TimeConstraintCheck(timestamp, minHour, maxHour) ==
    LET geq == GreaterEqThan(HourBits, timestamp, minHour)
        leq == LessEqThan(HourBits, timestamp, maxHour)
    IN  IF geq < 0 \/ leq < 0 THEN -1 ELSE AND(geq, leq)

\* faulty variant of AddressWhitelistCheck: the third slot is not compared
AddressWhitelistCheck_TwoSlots(target, a1, a2, a3) == OR(IsEqual(target, a1), IsEqual(target, a2))

\* AddressWhitelistCheck
AddressWhitelistCheck(target, a1, a2, a3) ==
    OR(OR(IsEqual(target, a1), IsEqual(target, a2)), IsEqual(target, a3))

\* faulty variant of amountCheck: a strict comparison
amountCheck_Strict(paymentAmount, maxAmount) == IF paymentAmount < maxAmount THEN 1 ELSE 0

\* LessEqThan(64) on operands that both lie in [0, 2^64): the unsigned order
amountCheck(paymentAmount, maxAmount) == IF paymentAmount <= maxAmount THEN 1 ELSE 0

Bit(b) == IF b = 1 THEN "1" ELSE "0"

\* PaymentRules: the public signals [isValid, addressValid, amountValid, timeValid],
\* or <<>> when the witness cannot be computed
PaymentRules(input) ==
    LET addressValid == AddressWhitelistCheck(input.paymentAddress, input.allowedAddress1,
                                              input.allowedAddress2, input.allowedAddress3)
        amountValid == amountCheck(input.paymentAmount, input.maxAmount)
        timeValid == TimeConstraintCheck(input.paymentTimestamp, input.minHour, input.maxHour)
        isValid == AND(AND(addressValid, amountValid), timeValid)
    IN  IF timeValid < 0 THEN <<>>
        ELSE <<Bit(isValid), Bit(addressValid), Bit(amountValid), Bit(timeValid)>>


(***************************************************************************)
(* Values                                                                  *)
(***************************************************************************)
\* a snarkjs Groth16 proof (opaque, non-zero curve points)
GenuineProof ==
    [shape |-> "groth16", pi_a |-> <<11, 12, 1>>, pi_b |-> <<<<21, 22>>, <<23, 24>>, <<1, 0>>>>,
     pi_c |-> <<31, 32, 1>>, validated |-> FALSE]
\* { mock: true, validated: v }: the direct-evaluation sentinel
MockProof(v) == [shape |-> "mock", pi_a |-> <<>>, pi_b |-> <<>>, pi_c |-> <<>>, validated |-> v]
\* an object of proof shape whose points are all zero
ZeroProof ==
    [shape |-> "groth16", pi_a |-> <<0, 0, 1>>, pi_b |-> <<<<0, 0>>, <<0, 0>>, <<1, 0>>>>,
     pi_c |-> <<0, 0, 1>>, validated |-> FALSE]
NullProof == [shape |-> "null", pi_a |-> <<>>, pi_b |-> <<>>, pi_c |-> <<>>, validated |-> FALSE]
Proofs == {GenuineProof, MockProof(TRUE), MockProof(FALSE), ZeroProof, NullProof}

SignalVectors == UNION {[1..n -> {"0", "1"}] : n \in 0..MaxSignals}

NoRules == [allowedAddresses |-> <<>>, maxAmount |-> 0, allowedHours |-> <<0, 0>>]
NoInvoice == [paymentAddress |-> <<>>, amount |-> Num(0, 0)]
NoPlan == [toAddress |-> <<>>, amount |-> Num(0, 0), timestamp |-> 0]
NoArtifact == [proof |-> NullProof, publicSignals |-> <<>>, isValid |-> FALSE]
NoVerification ==
    [kind |-> "none", success |-> FALSE, verified |-> FALSE, onChain |-> FALSE, fallback |-> FALSE]
NoProcessId == [prefix |-> "none", t |-> 0]
NoResult == [status |-> "none", success |-> FALSE, processId |-> NoProcessId, violations |-> <<>>]

(***************************************************************************)
(* RuleCommitmentManager                                                   *)
(***************************************************************************)
normalizedRules(rules) ==
    [allowedAddresses |-> SortStrings(rules.allowedAddresses), maxAmount |-> rules.maxAmount,
     allowedHours |-> rules.allowedHours, version |-> <<49, 46, 48>>]

\* faulty variant of SerializeNumbers: the separating commas are missing
RECURSIVE SerializeNumbers_NoComma(_)
SerializeNumbers_NoComma(a) ==
    IF a = <<>> THEN <<>> ELSE Digits(Head(a)) \o SerializeNumbers_NoComma(Tail(a))

\* the elements of a JSON array of nonnegative integers, comma-separated
RECURSIVE SerializeNumbers(_)
SerializeNumbers(a) ==
    IF a = <<>> THEN <<>>
    ELSE IF Len(a) = 1 THEN Digits(Head(a))
    ELSE Digits(Head(a)) \o <<44>> \o SerializeNumbers(Tail(a))

\* the elements of a JSON array of strings that need no escaping
RECURSIVE SerializeStrings(_)
SerializeStrings(a) ==
    IF a = <<>> THEN <<>>
    ELSE IF Len(a) = 1 THEN <<34>> \o Head(a) \o <<34>>
    ELSE <<34>> \o Head(a) \o <<34, 44>> \o SerializeStrings(Tail(a))

\* JSON.stringify(normalizedRules), as UTF-16 code units:
\* {"allowedAddresses":[...],"maxAmount":n,"allowedHours":[...],"version":"1.0"}
JSONstringify(nr) ==
    <<123, 34, 97, 108, 108, 111, 119, 101, 100, 65, 100, 100, 114, 101, 115, 115, 101, 115, 34, 58, 91>> \o SerializeStrings(nr.allowedAddresses)
    \o <<93, 44, 34, 109, 97, 120, 65, 109, 111, 117, 110, 116, 34, 58>> \o Digits(nr.maxAmount)
    \o <<44, 34, 97, 108, 108, 111, 119, 101, 100, 72, 111, 117, 114, 115, 34, 58, 91>> \o SerializeNumbers(nr.allowedHours)
    \o <<93, 44, 34, 118, 101, 114, 115, 105, 111, 110, 34, 58, 34>> \o nr.version \o <<34, 125>>

\* keccak256(toHex(rulesString)), idealised: the digest stands for its preimage
keccak256(bytes) == [null |-> FALSE, preimage |-> bytes]

hashRules(rules) == keccak256(JSONstringify(normalizedRules(rules)))
NullHash == [null |-> TRUE, preimage |-> <<>>]
NoCommit == [success |-> FALSE, ruleHash |-> NullHash]

\* the caller's rule object after hashRules: allowedAddresses.sort() sorts in place
rulesAfterHash(rules) == [rules EXCEPT !.allowedAddresses = SortStrings(@)]

(***************************************************************************)
(* PaymentPlanner                                                          *)
(***************************************************************************)
inAllowedHours(hour, rules) == hour >= rules.allowedHours[1] /\ hour <= rules.allowedHours[2]

getNextAllowedTime(t, allowedHours) ==
    LET todayStart == t - getHours(t) + allowedHours[1]
    IN  IF getHours(t) < allowedHours[1] THEN todayStart ELSE todayStart + 24

optimizePaymentTiming(t, rules) ==
    IF inAllowedHours(getHours(t), rules) THEN t ELSE getNextAllowedTime(t, rules.allowedHours)

createPaymentPlan(invoice, rules, t) ==
    [toAddress |-> invoice.paymentAddress, amount |-> invoice.amount,
     timestamp |-> optimizePaymentTiming(t, rules)]

(***************************************************************************)
(* ZKPProver                                                               *)
(***************************************************************************)
validateRulesManually(plan, rules, t) ==
    LET addressValid == includes(rules.allowedAddresses, plan.toAddress)
        amountValid == parseInt(plan.amount) <= rules.maxAmount
        timeValid == inAllowedHours(getHours(t), rules)
    IN  addressValid /\ amountValid /\ timeValid

\* faulty variant of circuitInput: the hour is taken from the caller's plan
circuitInput_PlanHour(plan, rules, t) ==
    [paymentAddress |-> addressToNumber(plan.toAddress),
     paymentAmount |-> parseInt(plan.amount),
     paymentTimestamp |-> getHours(plan.timestamp),
     allowedAddress1 |-> addressToNumber(ElemOr(rules.allowedAddresses, 1, Placeholder)),
     allowedAddress2 |-> addressToNumber(ElemOr(rules.allowedAddresses, 2, Placeholder)),
     allowedAddress3 |-> addressToNumber(ElemOr(rules.allowedAddresses, 3, Placeholder)),
     maxAmount |-> rules.maxAmount,
     minHour |-> rules.allowedHours[1],
     maxHour |-> rules.allowedHours[2]]

circuitInput(plan, rules, t) ==
    [paymentAddress |-> addressToNumber(plan.toAddress),
     paymentAmount |-> parseInt(plan.amount),
     paymentTimestamp |-> getHours(t),
     allowedAddress1 |-> addressToNumber(ElemOr(rules.allowedAddresses, 1, Placeholder)),
     allowedAddress2 |-> addressToNumber(ElemOr(rules.allowedAddresses, 2, Placeholder)),
     allowedAddress3 |-> addressToNumber(ElemOr(rules.allowedAddresses, 3, Placeholder)),
     maxAmount |-> rules.maxAmount,
     minHour |-> rules.allowedHours[1],
     maxHour |-> rules.allowedHours[2]]

\* the artifact generatePaymentProof returns at time t; files = checkCircuitFiles()
generatePaymentProof(plan, rules, t, files) ==
    IF ~files
    THEN LET isValid == validateRulesManually(plan, rules, t)
         IN  [proof |-> MockProof(isValid), publicSignals |-> <<Bit(IF isValid THEN 1 ELSE 0)>>,
              isValid |-> isValid]
    ELSE LET publicSignals == PaymentRules(circuitInput(plan, rules, t))
         IN  [proof |-> GenuineProof, publicSignals |-> publicSignals,
              isValid |-> publicSignals # <<>> /\ publicSignals[1] = "1"]

\* groth16.fullProve throws when the circuit has no witness for the input
proveThrows(plan, rules, t, files) == files /\ PaymentRules(circuitInput(plan, rules, t)) = <<>>

(***************************************************************************)
(* PaymentSystem helpers                                                   *)
(***************************************************************************)
SigEq(publicSignals, i, v) == i \in DOMAIN publicSignals /\ publicSignals[i] = v

interpretViolationSignals(publicSignals) ==
    (IF SigEq(publicSignals, 2, "0") THEN <<"address">> ELSE <<>>)
    \o (IF SigEq(publicSignals, 3, "0") THEN <<"amount">> ELSE <<>>)
    \o (IF SigEq(publicSignals, 4, "0") THEN <<"time">> ELSE <<>>)

(***************************************************************************)
(* OnChainZKPVerifier and the ZKPVerifier contract                         *)
(***************************************************************************)
IsObject(proof) == proof.shape # "null"

verifyProofLocally(proof, publicSignals) ==
    /\ IsObject(proof)
    /\ Len(publicSignals) = 4
    /\ \A i \in DOMAIN publicSignals : publicSignals[i] = "1"

\* keccak256 of JSON.stringify({proof, publicSignals, ruleHash, timestamp: Date.now()})
generateProofId(proof, publicSignals, ruleHash, t) ==
    [proof |-> proof, publicSignals |-> publicSignals, ruleHash |-> ruleHash, timestamp |-> t]

\* safeBigInt(x?.[i]): an absent entry converts as BigInt(undefined || 0) = 0
safeBigInt(arr, i) == IF i \in DOMAIN arr THEN arr[i] ELSE 0
safeBigInt2(arr, i, j) == IF i \in DOMAIN arr THEN safeBigInt(arr[i], j) ELSE 0

convertToOnChainProof(proof) ==
    [a |-> <<safeBigInt(proof.pi_a, 1), safeBigInt(proof.pi_a, 2)>>,
     b |-> <<<<safeBigInt2(proof.pi_b, 1, 1), safeBigInt2(proof.pi_b, 1, 2)>>,
             <<safeBigInt2(proof.pi_b, 2, 1), safeBigInt2(proof.pi_b, 2, 2)>>>>,
     c |-> <<safeBigInt(proof.pi_c, 1), safeBigInt(proof.pi_c, 2)>>]

\* BigInt(s) of a decimal signal string
BigInt(s) == IF s = "1" THEN 1 ELSE 0
toSignals(publicSignals) == [i \in DOMAIN publicSignals |-> BigInt(publicSignals[i])]

\* a uint256[2] slot of Proof.b, filled from a pair: zero exactly when both entries are zero
IsZeroB(x) == x[1] = 0 /\ x[2] = 0

\* faulty variant of verifyGroth16Proof: the zero-point checks are missing
verifyGroth16Proof_NoPointCheck(zkProof, signals) == Len(signals) = 4

\* ZKPVerifier._verifyGroth16Proof
verifyGroth16Proof(zkProof, signals) ==
    IF zkProof.a[1] = 0 /\ zkProof.a[2] = 0 THEN FALSE
    ELSE IF IsZeroB(zkProof.b[1]) /\ IsZeroB(zkProof.b[2]) THEN FALSE
    ELSE IF zkProof.c[1] = 0 /\ zkProof.c[2] = 0 THEN FALSE
    ELSE IF Len(signals) # 4 THEN FALSE
    ELSE TRUE

\* faulty variant of verifyPublicSignals: only the overall bit is looked at
verifyPublicSignals_OverallOnly(signals) == Len(signals) = 4 /\ signals[1] = 1

\* ZKPVerifier._verifyPublicSignals
verifyPublicSignals(signals) ==
    IF Len(signals) # 4 THEN FALSE
    ELSE signals[1] = 1 /\ signals[2] = 1 /\ signals[3] = 1 /\ signals[4] = 1

\* ZKPVerifier.isProofVerified on storage pp
isProofVerified(pp, proofId) == proofId \in DOMAIN pp /\ pp[proofId].verified

\* the require statements of verifyAndAuthorizePayment (a keccak digest is never bytes32(0))
reverts(pp, proofId) == isProofVerified(pp, proofId)

\* the isValid that verifyAndAuthorizePayment computes, stores and returns
authorize(zkProof, signals) == verifyGroth16Proof(zkProof, signals) /\ verifyPublicSignals(signals)

\* storage after verifyAndAuthorizePayment(proofId, ...)
storeProof(pp, proofId, zkProof, signals, ruleHash, paymentAddress, amount, t) ==
    LET rec == [zkProof |-> zkProof, publicSignals |-> signals, ruleHash |-> ruleHash,
                paymentAddress |-> paymentAddress, amount |-> amount, timestamp |-> t,
                verified |-> authorize(zkProof, signals)]
    IN  [x \in DOMAIN pp \cup {proofId} |-> IF x = proofId THEN rec ELSE pp[x]]

Agent == "agent"

(***************************************************************************)
(* The RuleCommitment contract                                             *)
(***************************************************************************)
\* bytes32(0): the one value that is no digest
ZeroHash == [null |-> FALSE, preimage |-> <<>>]
\* a slot of the userRules mapping that was never written
NoRuleData == [ruleHash |-> ZeroHash, timestamp |-> 0, description |-> "", isActive |-> FALSE]

\* the require statements of commitRules
commitReverts(ruleHash, description) == ruleHash = ZeroHash \/ description = ""

\* ruleExists after commitRules: the sender's previous hash is cleared, the new one set
ruleExistsAfterCommit(rc, re, sender, ruleHash) ==
    ((IF rc[sender].ruleHash # ZeroHash THEN re \ {rc[sender].ruleHash} ELSE re)
        \cup {ruleHash})

\* userRules after commitRules
userRulesAfterCommit(rc, sender, ruleHash, description, t) ==
    [rc EXCEPT ![sender] = [ruleHash |-> ruleHash, timestamp |-> t,
                            description |-> description, isActive |-> TRUE]]

getUserRuleHash(rc, user) == rc[user].ruleHash
verifyRuleHash(re, ruleHash) == ruleHash \in re
isRuleActive(rc, user) == rc[user].isActive /\ rc[user].ruleHash # ZeroHash

\* the require statement of revokeRules
revokeReverts(rc, sender) == ~rc[sender].isActive

ruleExistsAfterRevoke(rc, re, sender) == re \ {rc[sender].ruleHash}
userRulesAfterRevoke(rc, sender) == [rc EXCEPT ![sender].isActive = FALSE]

\* the description RuleCommitmentManager.commitRules passes by default
DefaultDescription == "Payment Rules Commitment"

(***************************************************************************)
(* State                                                                   *)
(***************************************************************************)
VARIABLES
    now,            \* Date.now(), counted in hours
    ticks,          \* how often the clock has advanced
    circuitFiles,   \* ZKPProver.checkCircuitFiles(): both circuit files exist
    zkpContract,    \* OnChainZKPVerifier.contractAddress is set
    paymentProofs,  \* ZKPVerifier.paymentProofs
    userProofs,     \* ZKPVerifier.userProofs
    ruleCommitments, \* RuleCommitment.userRules (the contract's mapping user => RuleData)
    ruleExists,     \* RuleCommitment.ruleExists, as the set of hashes mapped to true
    pc,             \* where the run stands
    caller,         \* "pipeline": processPayment; "direct": verifyProofOnChain called by itself
    userRules,      \* the caller's rule object
    processId,
    commitResult,
    invoiceData,
    paymentPlan,
    zkpResult,
    call,           \* parameters of the verifyProofOnChain call in progress
    verification,   \* what verifyProofOnChain returned
    paymentResult,
    result,         \* the ProcessResult processPayment resolved to
    hist,           \* history: invocation counts and observations of the run
    fn,             \* name of the function or template under evaluation ("none" in a run)
    arg,            \* its input
    out             \* <<>> before it is applied, <<value>> afterwards

vars == <<now, ticks, circuitFiles, zkpContract, paymentProofs, userProofs, ruleCommitments,
          ruleExists, pc, caller, userRules,
          processId, commitResult, invoiceData, paymentPlan, zkpResult, call, verification,
          paymentResult, result, hist, fn, arg, out>>

evaluation == <<fn, arg, out>>
env == <<circuitFiles, zkpContract>>
chain == <<paymentProofs, userProofs, ruleCommitments, ruleExists>>
clock == <<now, ticks>>

NoCall ==
    [proof |-> NullProof, publicSignals |-> <<>>, ruleHash |-> NullHash, paymentAddress |-> <<>>,
     amount |-> Num(0, 0), timestamp |-> 0]
NoPayment == [called |-> FALSE, success |-> FALSE]
NoHist ==
    [commit |-> 0, prove |-> 0, verify |-> 0, submit |-> 0, local |-> 0, exec |-> 0,
     proofHour |-> -1, execHour |-> -1, faulted |-> FALSE, failed |-> "none", hung |-> FALSE,
     events |-> <<>>]

Init ==
    /\ now \in StartHours
    /\ ticks = 0
    /\ circuitFiles \in BOOLEAN
    /\ zkpContract \in BOOLEAN
    /\ paymentProofs = [x \in {} |-> 0]
    /\ userProofs = [s \in {Agent} |-> <<>>]
    /\ ruleCommitments = [s \in {Agent} |-> NoRuleData]
    /\ ruleExists = {}
    /\ pc = "idle"
    /\ caller = "none"
    /\ userRules = NoRules
    /\ processId = NoProcessId
    /\ commitResult = NoCommit
    /\ invoiceData = NoInvoice
    /\ paymentPlan = NoPlan
    /\ zkpResult = NoArtifact
    /\ call = NoCall
    /\ verification = NoVerification
    /\ paymentResult = NoPayment
    /\ result = NoResult
    /\ hist = NoHist
    /\ fn = "none"
    /\ arg = <<>>
    /\ out = <<>>

(***************************************************************************)
(* verifyProofOnChain: the part that runs before the first await, and the  *)
(* catch branch (local fallback)                                           *)
(***************************************************************************)
callProofId == generateProofId(call.proof, call.publicSignals, call.ruleHash, call.timestamp)

\* return this.verifyProofLocally(...): a bare boolean
localResult(proof, publicSignals) ==
    [kind |-> "boolean", success |-> FALSE, verified |-> verifyProofLocally(proof, publicSignals),
     onChain |-> FALSE, fallback |-> FALSE]

\* faulty variant of fallbackResult: the local answer is reported as on-chain
fallbackResult_OnChain(proof, publicSignals) ==
    LET local == verifyProofLocally(proof, publicSignals)
    IN  [kind |-> "object", success |-> local, verified |-> local, onChain |-> TRUE,
         fallback |-> TRUE]

\* the object the catch block returns
fallbackResult(proof, publicSignals) ==
    LET local == verifyProofLocally(proof, publicSignals)
    IN  [kind |-> "object", success |-> local, verified |-> local, onChain |-> FALSE,
         fallback |-> TRUE]

\* the object returned after the contract was read
onChainResult(isVerified) ==
    [kind |-> "object", success |-> TRUE, verified |-> isVerified, onChain |-> TRUE,
     fallback |-> FALSE]

VerifyEntry(args) ==
    /\ call' = args
    /\ IF ~zkpContract
       THEN /\ verification' = localResult(args.proof, args.publicSignals)
            /\ pc' = "verified"
            /\ hist' = [hist EXCEPT !.verify = @ + 1, !.local = @ + 1]
       ELSE IF ~IsObject(args.proof)
       THEN \* convertToOnChainProof reads proof.pi_a of null: TypeError
            /\ verification' = fallbackResult(args.proof, args.publicSignals)
            /\ pc' = "verified"
            /\ hist' = [hist EXCEPT !.verify = @ + 1, !.local = @ + 1, !.faulted = TRUE]
       ELSE /\ verification' = verification
            /\ pc' = "simulate"
            /\ hist' = [hist EXCEPT !.verify = @ + 1]

\* faulty variant of RemoteFails: the remote verification is attempted again
RemoteFails_Retry ==
    /\ verification' = verification
    /\ pc' = "simulate"

\* catch (error): the local check takes over
RemoteFails ==
    /\ verification' = fallbackResult(call.proof, call.publicSignals)
    /\ pc' = "verified"

(***************************************************************************)
(* Actions                                                                 *)
(***************************************************************************)
\* a caller-supplied customProcessId
CustomId(n) == [prefix |-> "custom", t |-> n]

\* const processId = customProcessId || `payment_${Date.now()}`
newProcessId(customProcessId, t) ==
    IF customProcessId # NoProcessId THEN customProcessId ELSE [prefix |-> "payment", t |-> t]

\* the stage whose failure sent the run to the catch block: the first call that
\* threw ("log" for saveProcessingLog), or "none"
failedAt(h, stage, thrown, dbOk) ==
    IF h.failed # "none" THEN h.failed
    ELSE IF thrown THEN stage
    ELSE IF ~dbOk THEN "log"
    ELSE "none"

\* faulty variant of afterCommit: a failed commit does not stop the run
afterCommit_Continue(committed, dbOk) == "parse"

\* ruleHash.substring throws on the null ruleHash of a failed commit
afterCommit(committed, dbOk) == IF committed /\ dbOk THEN "parse" ELSE "catch"

\* faulty variant of ruleHashOf: no commitment reaches the verification
ruleHashOf_Null(cr) == NullHash

\* const ruleHash = commitResult.ruleHash
ruleHashOf(cr) == cr.ruleHash

\* this.sendLog(processId, phase, status, ...): one more event for the observer
sendLog(events, phase, status) == Append(events, <<phase, status>>)

\* processPayment is called: processId is fixed, the commit stage is announced
Start ==
    /\ pc = "idle"
    /\ \E rules \in RuleSets, customProcessId \in {NoProcessId, CustomId(0)} :
         /\ userRules' = rules
         /\ processId' = newProcessId(customProcessId, now)
    /\ caller' = "pipeline"
    /\ pc' = "commit"
    /\ hist' = [hist EXCEPT !.events = sendLog(@, "commit", "active")]
    /\ UNCHANGED evaluation
    /\ UNCHANGED <<clock, env, chain, commitResult, invoiceData, paymentPlan, zkpResult, call,
                   verification, paymentResult, result>>

\* STEP 1: ruleManager.commitRules, saveProcessingLog, ruleHash.substring
CommitRules ==
    /\ pc = "commit"
    /\ \E committed \in BOOLEAN, dbOk \in BOOLEAN :
         /\ commitResult' = IF committed THEN [success |-> TRUE, ruleHash |-> hashRules(userRules)]
                            ELSE [success |-> FALSE, ruleHash |-> NullHash]
         /\ pc' = afterCommit(committed, dbOk)
         /\ hist' = [hist EXCEPT !.commit = @ + 1, !.faulted = @ \/ ~committed \/ ~dbOk,
                                 !.failed = failedAt(hist, "commit", ~committed, dbOk),
                                 !.events = IF afterCommit(committed, dbOk) = "parse"
                                            THEN sendLog(sendLog(@, "commit", "completed"),
                                                         "parse", "active")
                                            ELSE @]
         /\ ruleCommitments' =
                IF committed
                THEN userRulesAfterCommit(ruleCommitments, Agent, hashRules(userRules),
                                          DefaultDescription, now)
                ELSE ruleCommitments
         /\ ruleExists' =
                IF committed
                THEN ruleExistsAfterCommit(ruleCommitments, ruleExists, Agent, hashRules(userRules))
                ELSE ruleExists
    /\ userRules' = rulesAfterHash(userRules)
    /\ UNCHANGED evaluation
    /\ UNCHANGED <<clock, env, paymentProofs, userProofs, caller, processId, invoiceData,
                   paymentPlan, zkpResult, call, verification, paymentResult, result>>

\* STEP 2: invoiceParser.parseInvoice*, saveProcessingLog
ParseInvoice ==
    /\ pc = "parse"
    /\ \/ \E addr \in Destinations, amt \in Amounts, dbOk \in BOOLEAN :
            /\ invoiceData' = [paymentAddress |-> addr, amount |-> amt]
            /\ pc' = IF dbOk THEN "plan" ELSE "catch"
            /\ hist' = [hist EXCEPT !.faulted = @ \/ ~dbOk,
                                    !.failed = failedAt(hist, "parse", FALSE, dbOk),
                                    !.events = IF dbOk
                                               THEN sendLog(sendLog(@, "parse", "completed"),
                                                            "plan", "active")
                                               ELSE @]
       \/ /\ pc' = "catch"
          /\ hist' = [hist EXCEPT !.faulted = TRUE, !.failed = failedAt(hist, "parse", TRUE, TRUE)]
          /\ UNCHANGED invoiceData
    /\ UNCHANGED evaluation
    /\ UNCHANGED <<clock, env, chain, caller, userRules, processId, commitResult, paymentPlan,
                   zkpResult, call, verification, paymentResult, result>>

\* STEP 3 (first half): paymentPlanner.createPaymentPlan, saveProcessingLog
CreatePlan ==
    /\ pc = "plan"
    /\ \E plannerOk \in BOOLEAN, dbOk \in BOOLEAN :
         /\ paymentPlan' = IF plannerOk THEN createPaymentPlan(invoiceData, userRules, now)
                           ELSE paymentPlan
         /\ pc' = IF plannerOk /\ dbOk THEN "zkp" ELSE "catch"
         /\ hist' = [hist EXCEPT !.faulted = @ \/ ~plannerOk \/ ~dbOk,
                                 !.failed = failedAt(hist, "plan", ~plannerOk, dbOk),
                                 !.events = IF plannerOk /\ dbOk
                                            THEN sendLog(sendLog(@, "plan", "completed"),
                                                         "zkp", "active")
                                            ELSE @]
    /\ UNCHANGED evaluation
    /\ UNCHANGED <<clock, env, chain, caller, userRules, processId, commitResult, invoiceData,
                   zkpResult, call, verification, paymentResult, result>>

\* faulty variant of ruleViolationDetected: the gate never stops the run
ruleViolationDetected_Never(artifact) == FALSE

\* if (!zkpResult.isValid): the run stops at the proof stage
ruleViolationDetected(artifact) == ~artifact.isValid

\* faulty variant of isVerified: the verification result is ignored
isVerified_Always(v) == TRUE

\* isVerified = typeof v === 'boolean' ? v : v.verified
isVerified(v) == v.verified

ruleViolation(artifact) ==
    [status |-> "rule_violation", success |-> FALSE, processId |-> processId,
     violations |-> interpretViolationSignals(artifact.publicSignals)]

\* STEP 3 (second half): zkpProver.generatePaymentProof, saveProcessingLog, the isValid gate
GenerateProof ==
    /\ pc = "zkp"
    /\ \E engineOk \in BOOLEAN, dbOk \in BOOLEAN :
         LET artifact == generatePaymentProof(paymentPlan, userRules, now, circuitFiles)
             thrown == circuitFiles /\ (~engineOk \/ proveThrows(paymentPlan, userRules, now, circuitFiles))
         IN  /\ hist' = [hist EXCEPT !.prove = @ + 1, !.proofHour = getHours(now),
                                     !.faulted = @ \/ thrown \/ ~dbOk,
                                     !.failed = failedAt(hist, "zkp", thrown, dbOk),
                                     !.events =
                                         IF thrown \/ ~dbOk THEN @
                                         ELSE IF ruleViolationDetected(artifact)
                                         THEN sendLog(sendLog(@, "zkp", "completed"),
                                                      "zkp", "failed")
                                         ELSE sendLog(sendLog(@, "zkp", "completed"),
                                                      "verify", "active")]
             /\ IF thrown
                THEN /\ pc' = "catch"
                     /\ UNCHANGED <<zkpResult, result>>
                ELSE /\ zkpResult' = artifact
                     /\ IF ~dbOk THEN /\ pc' = "catch"
                                      /\ UNCHANGED result
                        ELSE IF ruleViolationDetected(artifact)
                        THEN /\ pc' = "done"
                             /\ result' = ruleViolation(artifact)
                        ELSE /\ pc' = "verify"
                             /\ UNCHANGED result
    /\ UNCHANGED evaluation
    /\ UNCHANGED <<clock, env, chain, caller, userRules, processId, commitResult, invoiceData,
                   paymentPlan, call, verification, paymentResult>>

\* STEP 4: processPayment calls verifyProofOnChain
CallVerify ==
    /\ pc = "verify"
    /\ VerifyEntry([proof |-> zkpResult.proof, publicSignals |-> zkpResult.publicSignals,
                    ruleHash |-> ruleHashOf(commitResult), paymentAddress |-> paymentPlan.toAddress,
                    amount |-> paymentPlan.amount, timestamp |-> now])
    /\ UNCHANGED evaluation
    /\ UNCHANGED <<clock, env, chain, caller, userRules, processId, commitResult, invoiceData,
                   paymentPlan, zkpResult, paymentResult, result>>

\* the rule hash a direct caller passes: the hash of a rule set nobody has committed
DirectHash == hashRules([allowedAddresses |-> <<D1, D2>>, maxAmount |-> 10, allowedHours |-> <<9, 18>>])

\* verifyProofOnChain called by itself, with any proof and any public-signal vector
DirectVerify ==
    /\ pc = "idle"
    /\ caller' = "direct"
    /\ \E proof \in Proofs, publicSignals \in SignalVectors :
         VerifyEntry([proof |-> proof, publicSignals |-> publicSignals, ruleHash |-> DirectHash,
                      paymentAddress |-> D1, amount |-> Num(6, 0), timestamp |-> now])
    /\ UNCHANGED evaluation
    /\ UNCHANGED <<clock, env, chain, userRules, processId, commitResult, invoiceData,
                   paymentPlan, zkpResult, paymentResult, result>>

\* publicClient.simulateContract(verifyAndAuthorizePayment)
Simulate ==
    /\ pc = "simulate"
    /\ ~hist.hung
    /\ \/ /\ ~reverts(paymentProofs, callProofId)
          /\ pc' = "write"
          /\ hist' = [hist EXCEPT !.submit = @ + 1]
          /\ UNCHANGED verification
       \/ /\ RemoteFails
          /\ hist' = [hist EXCEPT !.submit = @ + 1, !.local = @ + 1, !.faulted = TRUE]
    /\ UNCHANGED evaluation
    /\ UNCHANGED <<clock, env, chain, caller, userRules, processId, commitResult, invoiceData,
                   paymentPlan, zkpResult, call, paymentResult, result>>

\* walletClient.writeContract: the transaction runs verifyAndAuthorizePayment
WriteContract ==
    /\ pc = "write"
    /\ ~hist.hung
    /\ \/ /\ ~reverts(paymentProofs, callProofId)
          /\ paymentProofs' = storeProof(paymentProofs, callProofId,
                                         convertToOnChainProof(call.proof),
                                         toSignals(call.publicSignals), call.ruleHash,
                                         call.paymentAddress, call.amount, now)
          /\ userProofs' = [userProofs EXCEPT ![Agent] = Append(@, callProofId)]
          /\ pc' = "receipt"
          /\ UNCHANGED <<verification, hist, ruleCommitments, ruleExists>>
       \/ /\ RemoteFails
          /\ hist' = [hist EXCEPT !.local = @ + 1, !.faulted = TRUE]
          /\ UNCHANGED chain
    /\ UNCHANGED evaluation
    /\ UNCHANGED <<clock, env, caller, userRules, processId, commitResult, invoiceData,
                   paymentPlan, zkpResult, call, paymentResult, result>>

\* publicClient.waitForTransactionReceipt
WaitReceipt ==
    /\ pc = "receipt"
    /\ ~hist.hung
    /\ \/ /\ pc' = "read"
          /\ UNCHANGED <<verification, hist>>
       \/ /\ RemoteFails
          /\ hist' = [hist EXCEPT !.local = @ + 1, !.faulted = TRUE]
    /\ UNCHANGED evaluation
    /\ UNCHANGED <<clock, env, chain, caller, userRules, processId, commitResult, invoiceData,
                   paymentPlan, zkpResult, call, paymentResult, result>>

\* publicClient.readContract(isProofVerified)
ReadVerified ==
    /\ pc = "read"
    /\ ~hist.hung
    /\ \/ /\ verification' = onChainResult(isProofVerified(paymentProofs, callProofId))
          /\ pc' = "verified"
          /\ UNCHANGED hist
       \/ /\ RemoteFails
          /\ hist' = [hist EXCEPT !.local = @ + 1, !.faulted = TRUE]
    /\ UNCHANGED evaluation
    /\ UNCHANGED <<clock, env, chain, caller, userRules, processId, commitResult, invoiceData,
                   paymentPlan, zkpResult, call, paymentResult, result>>

\* the remote calls are awaited without a timeout: the promise of the call in
\* progress may stay pending for ever
remoteSteps == {"simulate", "write", "receipt", "read"}

Pending ==
    /\ pc \in remoteSteps
    /\ ~hist.hung
    /\ hist' = [hist EXCEPT !.hung = TRUE, !.faulted = TRUE]
    /\ UNCHANGED evaluation
    /\ UNCHANGED <<clock, env, chain, pc, caller, userRules, processId, commitResult, invoiceData,
                   paymentPlan, zkpResult, call, verification, paymentResult, result>>

\* the isVerified gate of processPayment, saveProcessingLog('zkp_verified')
CheckVerified ==
    /\ pc = "verified"
    /\ caller = "pipeline"
    /\ IF ~isVerified(verification)
       THEN /\ pc' = "done"
            /\ result' = [status |-> "verification_failed", success |-> FALSE,
                          processId |-> processId, violations |-> <<>>]
            /\ UNCHANGED hist
       ELSE /\ \E dbOk \in BOOLEAN :
                 /\ pc' = IF dbOk THEN "payment" ELSE "catch"
                 /\ hist' = [hist EXCEPT !.faulted = @ \/ ~dbOk,
                                         !.failed = failedAt(hist, "verify", FALSE, dbOk),
                                         !.events = IF dbOk
                                                    THEN sendLog(sendLog(@, "verify", "completed"),
                                                                 "payment", "active")
                                                    ELSE @]
            /\ UNCHANGED result
    /\ UNCHANGED evaluation
    /\ UNCHANGED <<clock, env, chain, caller, userRules, processId, commitResult, invoiceData,
                   paymentPlan, zkpResult, call, verification, paymentResult>>

\* a direct call of verifyProofOnChain has returned
ReturnDirect ==
    /\ pc = "verified"
    /\ caller = "direct"
    /\ pc' = "done"
    /\ UNCHANGED evaluation
    /\ UNCHANGED <<clock, env, chain, caller, userRules, processId, commitResult, invoiceData,
                   paymentPlan, zkpResult, call, verification, paymentResult, result, hist>>

\* STEP 5: paymentExecutor.executePayment, saveProcessingLog, the final result
ExecutePayment ==
    /\ pc = "payment"
    /\ \E success \in BOOLEAN, dbOk \in BOOLEAN :
         /\ paymentResult' = [called |-> TRUE, success |-> success]
         /\ hist' = [hist EXCEPT !.exec = @ + 1, !.execHour = getHours(now),
                                 !.faulted = @ \/ ~success \/ ~dbOk,
                                 !.failed = failedAt(hist, "payment", FALSE, dbOk),
                                 !.events = IF ~dbOk THEN @
                                            ELSE sendLog(@, "payment", IF success THEN "completed"
                                                                       ELSE "failed")]
         /\ IF dbOk
            THEN /\ pc' = "done"
                 /\ result' = [status |-> IF success THEN "completed" ELSE "payment_failed",
                               success |-> success, processId |-> processId, violations |-> <<>>]
            ELSE /\ pc' = "catch"
                 /\ UNCHANGED result
    /\ UNCHANGED evaluation
    /\ UNCHANGED <<clock, env, chain, caller, userRules, processId, commitResult, invoiceData,
                   paymentPlan, zkpResult, call, verification>>

\* the catch block of processPayment
Catch ==
    /\ pc = "catch"
    /\ \/ /\ pc' = "done"
          /\ result' = [status |-> "error", success |-> FALSE,
                        processId |-> [prefix |-> "error", t |-> now], violations |-> <<>>]
       \/ \* saveProcessingLog throws inside the catch block: the promise rejects
          /\ pc' = "thrown"
          /\ UNCHANGED result
    /\ UNCHANGED evaluation
    /\ UNCHANGED <<clock, env, chain, caller, userRules, processId, commitResult, invoiceData,
                   paymentPlan, zkpResult, call, verification, paymentResult, hist>>

\* the wall clock passes an hour boundary while a call is awaited
Tick ==
    /\ pc \notin {"idle", "done", "thrown"}
    /\ ticks < MaxTicks
    /\ now' = now + 1
    /\ ticks' = ticks + 1
    /\ UNCHANGED evaluation
    /\ UNCHANGED <<env, chain, pc, caller, userRules, processId, commitResult, invoiceData,
                   paymentPlan, zkpResult, call, verification, paymentResult, result, hist>>

Next ==
    \/ Start
    \/ CommitRules
    \/ ParseInvoice
    \/ CreatePlan
    \/ GenerateProof
    \/ CallVerify
    \/ DirectVerify
    \/ Simulate
    \/ WriteContract
    \/ WaitReceipt
    \/ ReadVerified
    \/ Pending
    \/ CheckVerified
    \/ ReturnDirect
    \/ ExecutePayment
    \/ Catch
    \/ Tick

Spec == Init /\ [][Next]_vars

\* every awaited call of a run eventually returns or throws
FairSpec == Spec /\ WF_vars(Next)

(***************************************************************************)
(* Evaluation of single functions and circuit templates on chosen inputs   *)
(***************************************************************************)
\* largest value offered to the timestamp input of TimeConstraintCheck
MaxTimestamp == 256

run == <<clock, env, chain, pc, caller, userRules, processId, commitResult, invoiceData,
         paymentPlan, zkpResult, call, verification, paymentResult, result, hist>>

\* no run of processPayment is in progress
noPipeline ==
    /\ now = 0 /\ ticks = 0 /\ circuitFiles = TRUE /\ zkpContract = FALSE
    /\ pc = "idle" /\ caller = "none"
    /\ userRules = NoRules /\ processId = NoProcessId /\ commitResult = NoCommit
    /\ invoiceData = NoInvoice /\ paymentPlan = NoPlan /\ zkpResult = NoArtifact
    /\ call = NoCall /\ verification = NoVerification /\ paymentResult = NoPayment
    /\ result = NoResult /\ hist = NoHist

noRun ==
    /\ noPipeline
    /\ paymentProofs = [x \in {} |-> 0]
    /\ userProofs = [s \in {Agent} |-> <<>>]
    /\ ruleCommitments = [s \in {Agent} |-> NoRuleData]
    /\ ruleExists = {}

\* field elements offered to the address inputs of the circuit
Elements == {<<0, 0>>, <<0, 1>>, <<0, 2>>, <<0, 3>>, <<0, 4>>}

\* inputs of PaymentRules within the declared widths (hours within 8 bits)
CircuitInputs ==
    [paymentAddress : Elements, paymentAmount : {0, 75, 100, 101, 150},
     paymentTimestamp : {0, 8, 9, 14, 18, 19, 23, 24, 255},
     allowedAddress1 : {<<0, 1>>}, allowedAddress2 : {<<0, 1>>, <<0, 2>>},
     allowedAddress3 : {<<0, 0>>, <<0, 3>>}, maxAmount : {100},
     minHour : {0, 9}, maxHour : {18, 23, 255}]

\* inputs of TimeConstraintCheck, inside and outside the hours of a day
TimeInputs == [timestamp : 0 .. MaxTimestamp, minHour : {0, 9, 24}, maxHour : {18, 23, 30, 255}]

Evaluate(name, value) ==
    /\ fn = name
    /\ out = <<>>
    /\ out' = <<value>>
    /\ UNCHANGED <<fn, arg, run>>

\* component main = PaymentRules()
EvalPaymentRules == Evaluate("PaymentRules", PaymentRules(arg))

\* TimeConstraintCheck on its own
EvalTimeConstraintCheck ==
    Evaluate("TimeConstraintCheck", TimeConstraintCheck(arg.timestamp, arg.minHour, arg.maxHour))

\* the parameter n of IntegerDivision(n) and Mod(n)
DivBits == 3

\* the scalar field of the circuits, scaled down to a seven-bit prime (n + 1 < 7,
\* as circomlib requires n + 1 to stay below the bit length of the field)
FieldPrime == 2 ^ 7 - 1
Fp(x) == x % FieldPrime

\* LessThan(n) on field elements: Num2Bits(n+1) of in0 + 2^n - in1 computed in the
\* field, -1 when that value does not fit n+1 bits
LessThanF(n, a, b) ==
    LET v == Fp(a + Pow2(n) + FieldPrime - b)
    IN  IF v >= Pow2(n + 1) THEN -1 ELSE 1 - ((v \div Pow2(n)) % 2)
GreaterEqThanF(n, a, b) == LessThanF(n, b, Fp(a + 1))

\* quotient <-- dividend \ divisor; remainder <-- dividend % divisor
divisionWitness(dividend, divisor) ==
    [quotient |-> dividend \div divisor, remainder |-> dividend % divisor]

\* the three constraints of IntegerDivision(n) and Mod(n)
divisionConstraints(n, dividend, divisor, quotient, remainder) ==
    /\ dividend = Fp(quotient * divisor + remainder)
    /\ LessThanF(n, remainder, divisor) = 1
    /\ GreaterEqThanF(n, remainder, 0) = 1

\* dividend and divisor within n bits; an assignment of quotient and remainder
\* supplied from outside
DivisionInputs ==
    [dividend : 0 .. Pow2(DivBits) - 1, divisor : {1, 2, 3},
     quotient : 0 .. FieldPrime - 1, remainder : {0, 1, 2, 3}]

\* IntegerDivision(n): the computed witness, whether it satisfies the
\* constraints, and whether the supplied assignment satisfies them
IntegerDivision(n, input) ==
    LET w == divisionWitness(input.dividend, input.divisor)
    IN  [quotient |-> w.quotient, remainder |-> w.remainder,
         computed |-> divisionConstraints(n, input.dividend, input.divisor, w.quotient, w.remainder),
         supplied |-> divisionConstraints(n, input.dividend, input.divisor, input.quotient,
                                          input.remainder)]

\* Mod(n): as IntegerDivision(n), the quotient being an internal signal
Mod(n, input) ==
    LET d == IntegerDivision(n, input)
    IN  [remainder |-> d.remainder, computed |-> d.computed, supplied |-> d.supplied]

EvalIntegerDivision == Evaluate("IntegerDivision", IntegerDivision(DivBits, arg))

EvalMod == Evaluate("Mod", Mod(DivBits, arg))

\* rule sets handed to hashRules, two at a time
HashedRuleSets ==
    [allowedAddresses : {<<D1, D2>>, <<D2, D1>>, <<D2, D3, D1>>, <<D1, D2, D3>>, <<D1>>, <<D1, D1>>},
     maxAmount : {1, 10, 100}, allowedHours : {<<9, 18>>, <<1, 18>>, <<11, 8>>, <<0, 23>>}]

\* hashRules called twice on the caller's object arg[1], and once on arg[2]
EvalHashRules ==
    Evaluate("hashRules",
             [first |-> hashRules(arg[1]), after |-> rulesAfterHash(arg[1]),
              again |-> hashRules(rulesAfterHash(arg[1])), other |-> hashRules(arg[2])])

\* two calls of processPayment: the customProcessId each was given (NoProcessId
\* for none) and the value of Date.now() when each started
ProcessIdInputs ==
    [customA : {NoProcessId, CustomId(1)}, customB : {NoProcessId, CustomId(2)},
     tA : {0, 1, 2}, tB : {0, 1, 2}]

\* the processId of each of the two runs
EvalProcessId ==
    Evaluate("processId", <<newProcessId(arg.customA, arg.tA), newProcessId(arg.customB, arg.tB)>>)

\* addressToNumber applied to two identifiers
EvalAddressToNumber ==
    Evaluate("addressToNumber", <<addressToNumber(arg[1]), addressToNumber(arg[2])>>)

\* two calls of generatePaymentProof that differ only in paymentPlan.timestamp
ProofInputs ==
    [toAddress : {D1, D3}, amount : {Num(6, 0), Num(15, 0)}, timestampA : {0, 14, 23, 33},
     timestampB : {0, 14, 23, 33}, rules : RuleSets, t : StartHours, files : BOOLEAN]

planOf(input, timestamp) ==
    [toAddress |-> input.toAddress, amount |-> input.amount, timestamp |-> timestamp]

\* the artifact, or NoArtifact when fullProve throws
proveOnce(plan, rules, t, files) ==
    IF proveThrows(plan, rules, t, files) THEN NoArtifact
    ELSE generatePaymentProof(plan, rules, t, files)

EvalGeneratePaymentProof ==
    Evaluate("generatePaymentProof",
             <<proveOnce(planOf(arg, arg.timestampA), arg.rules, arg.t, arg.files),
               proveOnce(planOf(arg, arg.timestampB), arg.rules, arg.t, arg.files)>>)

\* normalizedAddr = addr.toLowerCase()
Lower(addr) == [i \in DOMAIN addr |-> toLowerCase(addr[i])]

\* intents and rule sets handed to both ways of checking the rules
RuleCheckInputs ==
    [toAddress : {D1, Lower(D1), D2, K1}, amount : Amounts, rules : RuleSets, t : StartHours]

\* the overall validity by direct evaluation and by the circuit path
EvalValidateRulesManually ==
    Evaluate("validateRulesManually",
             <<validateRulesManually(planOf(arg, arg.t), arg.rules, arg.t),
               generatePaymentProof(planOf(arg, arg.t), arg.rules, arg.t, TRUE).isValid>>)

EvalInit ==
    /\ noRun
    /\ out = <<>>
    /\ \/ fn = "PaymentRules" /\ arg \in CircuitInputs
       \/ fn = "TimeConstraintCheck" /\ arg \in TimeInputs
       \/ fn = "addressToNumber" /\ arg \in Identifiers \X Identifiers
       \/ fn = "generatePaymentProof" /\ arg \in ProofInputs
       \/ fn = "IntegerDivision" /\ arg \in DivisionInputs
       \/ fn = "Mod" /\ arg \in DivisionInputs
       \/ fn = "hashRules" /\ arg \in HashedRuleSets \X HashedRuleSets
       \/ fn = "processId" /\ arg \in ProcessIdInputs
       \/ fn = "validateRulesManually" /\ arg \in RuleCheckInputs

EvalNext ==
    \/ EvalPaymentRules
    \/ EvalTimeConstraintCheck
    \/ EvalAddressToNumber
    \/ EvalGeneratePaymentProof
    \/ EvalIntegerDivision
    \/ EvalMod
    \/ EvalHashRules
    \/ EvalProcessId
    \/ EvalValidateRulesManually

EvalSpec == EvalInit /\ [][EvalNext]_vars

(***************************************************************************)
(* The RuleCommitment contract called by several users                     *)
(***************************************************************************)
Other == "other"
Users == {Agent, Other}

\* two non-zero rule hashes
H1 == keccak256(<<1>>)
H2 == keccak256(<<2>>)
CommitHashes == {ZeroHash, H1, H2}
Descriptions == {"", DefaultDescription}

pipelineState ==
    <<clock, env, pc, caller, userRules, processId, commitResult, invoiceData, paymentPlan,
      zkpResult, call, verification, paymentResult, result, hist>>

\* RuleCommitment.commitRules(ruleHash, description) sent by msg.sender
commitRules ==
    /\ fn = "RuleCommitment"
    /\ \E sender \in Users, ruleHash \in CommitHashes, description \in Descriptions :
         /\ arg' = [function |-> "commitRules", sender |-> sender, ruleHash |-> ruleHash,
                    description |-> description]
         /\ IF commitReverts(ruleHash, description)
            THEN /\ out' = <<"revert">>
                 /\ UNCHANGED <<ruleCommitments, ruleExists>>
            ELSE /\ out' = <<"ok">>
                 /\ ruleCommitments' =
                        userRulesAfterCommit(ruleCommitments, sender, ruleHash, description, now)
                 /\ ruleExists' = ruleExistsAfterCommit(ruleCommitments, ruleExists, sender, ruleHash)
    /\ UNCHANGED <<fn, paymentProofs, userProofs>>
    /\ UNCHANGED pipelineState

\* RuleCommitment.revokeRules() sent by msg.sender
revokeRules ==
    /\ fn = "RuleCommitment"
    /\ \E sender \in Users :
         /\ arg' = [function |-> "revokeRules", sender |-> sender, ruleHash |-> ZeroHash,
                    description |-> ""]
         /\ IF revokeReverts(ruleCommitments, sender)
            THEN /\ out' = <<"revert">>
                 /\ UNCHANGED <<ruleCommitments, ruleExists>>
            ELSE /\ out' = <<"ok">>
                 /\ ruleCommitments' = userRulesAfterRevoke(ruleCommitments, sender)
                 /\ ruleExists' = ruleExistsAfterRevoke(ruleCommitments, ruleExists, sender)
    /\ UNCHANGED <<fn, paymentProofs, userProofs>>
    /\ UNCHANGED pipelineState

CommitmentInit ==
    /\ noPipeline
    /\ paymentProofs = [x \in {} |-> 0]
    /\ userProofs = [s \in Users |-> <<>>]
    /\ ruleCommitments = [s \in Users |-> NoRuleData]
    /\ ruleExists = {}
    /\ fn = "RuleCommitment" /\ arg = <<>> /\ out = <<>>

CommitmentNext == commitRules \/ revokeRules

CommitmentSpec == CommitmentInit /\ [][CommitmentNext]_vars

(***************************************************************************)
(* The ZKPVerifier contract called by several senders                      *)
(***************************************************************************)
\* how many calls of verifyAndAuthorizePayment that do not revert are followed
MaxCalls == 3

\* bytes32(0) and two other proof ids
ZeroId == 0
ProofIds == {ZeroId, 1, 2}

OnChainProofs == {convertToOnChainProof(GenuineProof), convertToOnChainProof(ZeroProof)}
OnChainSignals == {<<1, 1, 1, 1>>, <<1, 0, 1, 1>>}

storedCalls == Len(userProofs[Agent]) + Len(userProofs[Other])

\* faulty variant of authorizeReverts: a verified proof id is accepted again
authorizeReverts_ZeroOnly(pp, proofId) == proofId = ZeroId

\* require(proofId != bytes32(0)); require(!paymentProofs[proofId].verified)
authorizeReverts(pp, proofId) == proofId = ZeroId \/ reverts(pp, proofId)

\* ZKPVerifier.verifyAndAuthorizePayment(proofId, zkProof, publicSignals, ruleHash,
\* paymentAddress, amount) sent by msg.sender
verifyAndAuthorizePayment ==
    /\ fn = "ZKPVerifier"
    /\ \E sender \in Users, proofId \in ProofIds, zkProof \in OnChainProofs,
          signals \in OnChainSignals, ruleHash \in {H1} :
         /\ arg' = [sender |-> sender, proofId |-> proofId, zkProof |-> zkProof,
                    publicSignals |-> signals, ruleHash |-> ruleHash]
         /\ IF authorizeReverts(paymentProofs, proofId)
            THEN /\ out' = <<[reverted |-> TRUE, returned |-> FALSE]>>
                 /\ UNCHANGED <<paymentProofs, userProofs>>
            ELSE /\ storedCalls < MaxCalls
                 /\ out' = <<[reverted |-> FALSE, returned |-> authorize(zkProof, signals)]>>
                 /\ paymentProofs' = storeProof(paymentProofs, proofId, zkProof, signals,
                                                ruleHash, D1, Num(6, 0), now)
                 /\ userProofs' = [userProofs EXCEPT ![sender] = Append(@, proofId)]
    /\ UNCHANGED <<fn, ruleCommitments, ruleExists>>
    /\ UNCHANGED pipelineState

VerifierInit ==
    /\ noPipeline
    /\ paymentProofs = [x \in {} |-> 0]
    /\ userProofs = [s \in Users |-> <<>>]
    /\ ruleCommitments = [s \in Users |-> NoRuleData]
    /\ ruleExists = {}
    /\ fn = "ZKPVerifier" /\ arg = <<>> /\ out = <<>>

VerifierNext == verifyAndAuthorizePayment

VerifierSpec == VerifierInit /\ [][VerifierNext]_vars

(***************************************************************************)
(* Properties                                                              *)
(***************************************************************************)
inPipeline == caller = "pipeline"
proofReturned == inPipeline /\ hist.prove > 0 /\ zkpResult.proof.shape # "null"
allOnes(publicSignals) ==
    Len(publicSignals) = 4 /\ \A i \in DOMAIN publicSignals : publicSignals[i] = "1"

\* C1: executePayment is invoked only in a run whose verification result is
\* verified == true; a run whose verification result is false never invokes it.
C1_ExecuteOnlyIfVerified ==
    /\ hist.exec > 0 => (verification.kind # "none" /\ verification.verified)
    /\ (verification.kind # "none" /\ ~verification.verified) => hist.exec = 0
C1_Witness ==
    /\ inPipeline /\ hist.exec = 1 /\ verification.verified /\ verification.fallback

C3_VerifiedImpliesAllOnes ==
    (verification.kind # "none" /\ verification.verified) =>
        /\ allOnes(call.publicSignals)
        /\ toSignals(call.publicSignals) = <<1, 1, 1, 1>>
C3_Witness ==
    /\ caller = "direct" /\ verification.verified /\ verification.onChain

\* C4 (as claimed): whenever executePayment is invoked, paymentPlan.toAddress is a
\* member of userRules.allowedAddresses.
C4_Original ==
    hist.exec > 0 => includes(userRules.allowedAddresses, paymentPlan.toAddress)

\* C5 (as claimed): whenever executePayment is invoked, paymentPlan.amount is less
\* than or equal to userRules.maxAmount.
C5_Original ==
    hist.exec > 0 => NumLeq(paymentPlan.amount, userRules.maxAmount)

\* C6 (as claimed): whenever executePayment is invoked, the clock hour at that
\* moment lies in [allowedHours[0], allowedHours[1]].
C6_Original ==
    hist.exec > 0 => inAllowedHours(hist.execHour, userRules)

\* the intent satisfies all three rules at the hour sampled by the prover
compliant ==
    /\ includes(userRules.allowedAddresses, paymentPlan.toAddress)
    /\ NumLeq(paymentPlan.amount, userRules.maxAmount)
    /\ inAllowedHours(hist.proofHour, userRules)

compliantRun == inPipeline /\ hist.prove > 0 /\ circuitFiles /\ compliant /\ ~hist.faulted

neverStopped ==
    compliantRun =>
        /\ pc \notin {"catch", "thrown"}
        /\ zkpResult.isValid
        /\ verification.kind # "none" => verification.verified
        /\ pc = "done" => (hist.exec = 1 /\ result.status = "completed")

\* C7: with the proving artifacts present and no collaborator call failing, a run
\* whose intent satisfies all three rules at the sampled hour is never stopped
\* before the execution stage and eventually invokes executePayment, with the
\* verifier contract configured or not.
C7_CompliantReachesExecution ==
    /\ []neverStopped
    /\ compliantRun ~> (hist.exec = 1 \/ hist.faulted)
C7_Witness ==
    /\ inPipeline /\ circuitFiles /\ compliant /\ ~hist.faulted
    /\ zkpContract /\ verification.onChain
    /\ pc = "done" /\ hist.exec = 1 /\ result.status = "completed"

\* C8: an artifact of the direct-evaluation fallback never yields a result with
\* verified == true and onChain == true, whatever its claimed bits.
C8_FallbackNeverVerifiedOnChain ==
    call.proof.shape = "mock" => ~(verification.verified /\ verification.onChain)
C8_Witness ==
    /\ call.proof.shape = "mock" /\ allOnes(call.publicSignals)
    /\ verification.onChain /\ hist.submit = 1

\* C9 (as claimed): an artifact of the direct-evaluation fallback is never
\* submitted to the verifier contract and never gets a result with onChain == true.
C9_Original ==
    (inPipeline /\ zkpResult.proof.shape = "mock" /\ call.proof = zkpResult.proof) =>
        (hist.submit = 0 /\ ~verification.onChain)

\* C10 (as claimed): every artifact generatePaymentProof returns carries four bits
\* [overallValid, destinationValid, amountValid, timeValid] with
\* overallValid == destinationValid AND amountValid AND timeValid, and
\* isValid == overallValid.
C10_Original ==
    proofReturned =>
        LET s == zkpResult.publicSignals
        IN  /\ Len(s) = 4
            /\ \A i \in DOMAIN s : s[i] \in {"0", "1"}
            /\ (s[1] = "1") = (s[2] = "1" /\ s[3] = "1" /\ s[4] = "1")
            /\ zkpResult.isValid = (s[1] = "1")
evaluated(name) == fn = name /\ Len(out) = 1

\* C11: for inputs within the declared widths PaymentRules outputs
\* addressValid = 1 iff paymentAddress is one of the three allowed addresses,
\* amountValid = 1 iff paymentAmount <= maxAmount, timeValid = 1 iff
\* minHour <= paymentTimestamp <= maxHour, and isValid = the AND of the three.
C11_CircuitComputesRules ==
    evaluated("PaymentRules") =>
        LET a == arg.paymentAddress \in {arg.allowedAddress1, arg.allowedAddress2, arg.allowedAddress3}
            m == arg.paymentAmount <= arg.maxAmount
            t == arg.minHour <= arg.paymentTimestamp /\ arg.paymentTimestamp <= arg.maxHour
            bit(b) == IF b THEN "1" ELSE "0"
        IN  out[1] = <<bit(a /\ m /\ t), bit(a), bit(m), bit(t)>>
C11_Witness ==
    /\ evaluated("PaymentRules")
    /\ arg.paymentAddress = arg.allowedAddress3
    /\ arg.paymentAmount = 150 /\ arg.paymentTimestamp = 14 /\ arg.minHour = 9 /\ arg.maxHour = 18
    /\ out[1] = <<"0", "1", "0", "1">>

\* C12 as stated: addressToNumber is injective over the identifiers it is applied
\* to: different strings (destinations, or a destination and the placeholder of
\* an unused whitelist slot) never map to the same field element.
C12_Original ==
    (evaluated("addressToNumber") /\ arg[1] # arg[2]) => out[1][1] # out[1][2]

\* C13: the hour of the time-window check is sampled from the clock inside
\* generatePaymentProof: two calls with the same rules, destination, amount and
\* clock but different paymentPlan.timestamp return the same public outputs, on
\* the circuit path and on the direct-evaluation path.
C13_HourNotFromCaller ==
    evaluated("generatePaymentProof") =>
        /\ out[1][1] = out[1][2]
        /\ out[1][1].isValid => inAllowedHours(getHours(arg.t), arg.rules)
C13_Witness ==
    /\ evaluated("generatePaymentProof")
    /\ arg.files
    /\ inAllowedHours(getHours(arg.timestampA), arg.rules)
    /\ ~inAllowedHours(getHours(arg.timestampB), arg.rules)
    /\ ~inAllowedHours(getHours(arg.t), arg.rules)
    /\ arg.toAddress = D1 /\ arg.amount = Num(6, 0)
    /\ out[1][1].publicSignals = <<"0", "1", "1", "0">>
    /\ out[1][2].publicSignals = <<"0", "1", "1", "0">>

\* C14 as stated: for every hour outside [0,23] TimeConstraintCheck yields
\* timeValid = 0 or has no satisfying witness, whatever minHour and maxHour are.
C14_Original ==
    (evaluated("TimeConstraintCheck") /\ arg.timestamp \notin 0 .. 23) => out[1] \in {0, -1}

divisionRelations(dividend, divisor, quotient, remainder) ==
    /\ dividend = quotient * divisor + remainder
    /\ 0 <= remainder /\ remainder < divisor

\* C15 as stated: for a nonnegative dividend and a positive divisor within n bits
\* the computed quotient and remainder satisfy dividend = quotient*divisor +
\* remainder and 0 <= remainder < divisor, and no assignment of (quotient,
\* remainder) that violates either relation satisfies the constraints of
\* IntegerDivision(n) or Mod(n).
C15_Original ==
    /\ evaluated("IntegerDivision") =>
          /\ out[1].computed
          /\ divisionRelations(arg.dividend, arg.divisor, out[1].quotient, out[1].remainder)
          /\ out[1].supplied =>
                divisionRelations(arg.dividend, arg.divisor, arg.quotient, arg.remainder)
    /\ evaluated("Mod") =>
          /\ out[1].computed
          /\ out[1].supplied =>
                divisionRelations(arg.dividend, arg.divisor, arg.quotient, arg.remainder)

occurrences(a, x) == Cardinality({i \in DOMAIN a : a[i] = x})
range(a) == {a[i] : i \in DOMAIN a}
\* a and b hold the same elements, each as often, in any order
isPermutation(a, b) ==
    /\ Len(a) = Len(b)
    /\ \A x \in range(a) \cup range(b) : occurrences(a, x) = occurrences(b, x)

C17_OrderIndependent ==
    (/\ evaluated("hashRules")
     /\ isPermutation(arg[1].allowedAddresses, arg[2].allowedAddresses)
     /\ arg[1].maxAmount = arg[2].maxAmount
     /\ arg[1].allowedHours = arg[2].allowedHours)
    => out[1].first = out[1].other
C17_Witness ==
    /\ evaluated("hashRules")
    /\ arg[1].allowedAddresses = <<D2, D3, D1>> /\ arg[2].allowedAddresses = <<D1, D2, D3>>
    /\ arg[1].maxAmount = arg[2].maxAmount /\ arg[1].allowedHours = arg[2].allowedHours
    /\ out[1].first = out[1].other

\* C18 as stated: hashRules is pure, it leaves the caller's rule set unchanged,
\* including the order of the elements of allowedAddresses.
C18_Original ==
    evaluated("hashRules") => out[1].after = arg[1]

\* C19: within one run the stages follow each other in the order commit rules,
\* derive intent, generate proof, verify, execute; no stage starts before the
\* result of the previous one is known, the commitment passed to verification is
\* the one the run's commit stage produced, and verification is attempted only
\* after overallValid is known to be 1.
C19_StagesInOrder ==
    inPipeline =>
        /\ pc \in {"parse", "plan", "zkp", "verify"} => (hist.commit = 1 /\ commitResult.success)
        /\ invoiceData # NoInvoice => (hist.commit = 1 /\ commitResult.success)
        /\ paymentPlan # NoPlan => invoiceData # NoInvoice
        /\ pc \in {"zkp", "verify"} => paymentPlan # NoPlan
        /\ hist.prove > 0 => paymentPlan # NoPlan
        /\ pc = "verify" => (hist.prove = 1 /\ zkpResult.isValid)
        /\ hist.verify > 0 =>
              /\ hist.prove = 1
              /\ zkpResult.isValid /\ zkpResult.publicSignals[1] = "1"
              /\ call.proof = zkpResult.proof
              /\ ~call.ruleHash.null
              /\ call.ruleHash = commitResult.ruleHash
              /\ call.ruleHash = hashRules(userRules)
        /\ pc = "payment" => (hist.verify = 1 /\ verification.kind # "none")
        /\ hist.exec > 0 => (hist.verify = 1 /\ verification.kind # "none")
C19_Witness ==
    /\ inPipeline /\ pc = "done" /\ zkpContract /\ verification.onChain
    /\ hist.commit = 1 /\ hist.prove = 1 /\ hist.verify = 1 /\ hist.exec = 1
    /\ call.ruleHash = hashRules(userRules)

\* C20: one run invokes each of commitRules, generatePaymentProof,
\* verifyProofOnChain and executePayment at most once, also when a stage fails;
\* a failed remote verification is not attempted again, it falls back to the
\* local check exactly once.
C20_NoRetry ==
    inPipeline =>
        /\ hist.commit <= 1 /\ hist.prove <= 1 /\ hist.verify <= 1 /\ hist.exec <= 1
        /\ hist.submit <= 1 /\ hist.local <= 1
        /\ verification.fallback => (hist.local = 1 /\ hist.verify = 1)
        /\ pc \in {"catch", "thrown"} => hist.faulted
C20_Witness ==
    /\ inPipeline /\ pc = "done" /\ hist.faulted
    /\ hist.submit = 1 /\ verification.fallback /\ hist.local = 1
    /\ hist.verify = 1 /\ hist.exec = 1

\* C21: a failure of the commit stage (success == false, no ruleHash), or a throw
\* of invoice parsing, planning or proof generation, is terminal for the run: no
\* later stage is started, verifyProofOnChain and executePayment are never
\* invoked, and the failure is reported to the caller (an 'error' result or a
\* rejection).
C21_FailureIsTerminal ==
    (inPipeline /\ hist.failed \in {"commit", "parse", "plan", "zkp"}) =>
        /\ pc \in {"catch", "done", "thrown"}
        /\ hist.verify = 0 /\ hist.submit = 0 /\ hist.local = 0 /\ hist.exec = 0
        /\ verification = NoVerification /\ paymentResult = NoPayment
        /\ hist.failed = "commit" => (invoiceData = NoInvoice /\ paymentPlan = NoPlan /\ hist.prove = 0)
        /\ hist.failed = "parse" => (invoiceData = NoInvoice /\ paymentPlan = NoPlan /\ hist.prove = 0)
        /\ hist.failed = "plan" => (paymentPlan = NoPlan /\ hist.prove = 0)
        /\ hist.failed = "zkp" => zkpResult = NoArtifact
        /\ pc = "done" => (result.status = "error" /\ ~result.success)
C21_Witness ==
    /\ inPipeline /\ hist.failed = "commit" /\ ~commitResult.success /\ commitResult.ruleHash.null
    /\ pc = "done" /\ result.status = "error"

\* C22 as stated: every run ends in one of the explicit result variants
\* 'rule_violation', 'verification_failed', 'completed', 'payment_failed' or
\* 'error'; processPayment always resolves to such a result and never throws,
\* also when a collaborator such as the log store fails in the error handler.
C22_Original ==
    inPipeline =>
        /\ pc # "thrown"
        /\ pc = "done" => result.status \in {"rule_violation", "verification_failed", "completed",
                                             "payment_failed", "error"}

\* C23 as stated: every 'rule_violation' result carries a non-empty violations
\* list naming the sub-checks that failed, on the circuit path and on the
\* direct-evaluation path.
C23_Original ==
    (inPipeline /\ pc = "done" /\ result.status = "rule_violation") => result.violations # <<>>

\* C24 as stated: the final result of a run carries the run's processId, in every
\* outcome including the error outcome.
C24_Original ==
    (inPipeline /\ pc = "done") => result.processId = processId

\* C25 as stated: with the circuit files absent, a run whose intent satisfies all
\* three rules and whose collaborators all succeed is authorized through the
\* local check and reaches the execution stage.
C25_Original ==
    (inPipeline /\ ~circuitFiles /\ hist.prove > 0 /\ compliant /\ ~hist.faulted /\ pc = "done") =>
        (hist.exec = 1 /\ result.status = "completed")

verifyReturned == verification.kind # "none"
objectWithFourOnes == IsObject(call.proof) /\ allOnes(call.publicSignals)

localOutcome ==
    /\ (verifyReturned /\ ~zkpContract) => (~verification.onChain /\ hist.local = 1)
    /\ (verifyReturned /\ hist.local > 0) =>
          /\ ~verification.onChain
          /\ verification.verified = objectWithFourOnes
    /\ (verifyReturned /\ verification.onChain) => (zkpContract /\ hist.local = 0)

\* C26: verifyProofOnChain never fails because of the remote oracle: with no
\* contract configured, or when the simulation, the transaction, the receipt
\* wait or the status read fails, it returns the outcome of the local structural
\* check, reported as not on-chain, which is true exactly when the proof is an
\* object and the public signals are four values all equal to '1'.
C26_RemoteFailureFallsBackToLocal ==
    /\ []localOutcome
    /\ [][(pc \in remoteSteps \cup {"verify"}) => (pc' \in remoteSteps \cup {"verify", "verified"})]_vars
C26_Witness ==
    /\ verifyReturned /\ zkpContract /\ hist.submit = 1 /\ hist.local = 1
    /\ verification.fallback /\ ~verification.onChain /\ verification.verified
    /\ objectWithFourOnes

\* C27 as stated: the local structural check returns false for every artifact
\* whose proof is the direct-evaluation sentinel or otherwise lacks the
\* cryptographic proof fields, even when its four bits are all '1'.
C27_Original ==
    (verifyReturned /\ hist.local > 0 /\ call.proof.shape # "groth16") => ~verification.verified

\* C28 as stated: every verification result carries an explicit mode: it is
\* either reported as on-chain or explicitly tagged as local fallback.
C28_Original ==
    verifyReturned =>
        /\ verification.kind = "object"
        /\ verification.onChain # verification.fallback

\* C29 as stated: if the remote oracle never answers, the call is abandoned after
\* a timeout and the run eventually continues and terminates.
C29_Original == hist.hung ~> (pc \in {"verified", "payment", "done", "thrown"})

\* C30 as stated: two runs of processPayment, including two started at the same
\* instant without a caller-supplied id, have distinct processIds.
C30_Original ==
    (evaluated("processId") /\ arg.customA = NoProcessId /\ arg.customB = NoProcessId) =>
        out[1][1] # out[1][2]

\* C31 (as claimed): generatePaymentProof never yields a ProofArtifact for an intent
\* whose destination is not a full-length address string; it fails instead.
C31_Original ==
    (inPipeline /\ hist.prove > 0 /\ Len(paymentPlan.toAddress) < AddressLength)
        => ~proofReturned

\* RuleSet: at most 3 destinations, 0 <= startHour <= endHour <= 23, an unsigned cap
malformed(rules) ==
    \/ Len(rules.allowedAddresses) > 3
    \/ rules.allowedHours[1] > rules.allowedHours[2]
    \/ rules.allowedHours[1] < 0 \/ rules.allowedHours[2] > 23
    \/ rules.maxAmount < 0

\* the destinations hashRules puts under the commitment
committedDestinations(rules) == range(normalizedRules(rules).allowedAddresses)

\* the destinations generatePaymentProof hands to the circuit
provenDestinations(rules) ==
    {rules.allowedAddresses[i] : i \in DOMAIN rules.allowedAddresses \cap 1..3}

\* C32 (as claimed): for a malformed rule set processPayment never calls
\* generatePaymentProof, and every destination under the commitment is one the proof
\* checks against.
C32_Original ==
    (inPipeline /\ malformed(userRules)) =>
        /\ hist.prove = 0
        /\ committedDestinations(userRules) \subseteq provenDestinations(userRules)

\* C33 (as claimed): a verification request that carries a rule commitment other
\* than the one currently committed is not authorized.
C33_Original ==
    (verifyReturned /\ call.ruleHash # commitResult.ruleHash) => ~verification.verified

Stages == {"commit", "parse", "plan", "zkp", "verify", "payment"}

\* positions of the events reported for a stage with a status
eventsOf(stage, status) == {i \in DOMAIN hist.events : hist.events[i] = <<stage, status>>}
terminalEvents(stage) == eventsOf(stage, "completed") \cup eventsOf(stage, "failed")

\* one 'active' event, then exactly one terminal event
reportedOnce(stage) ==
    /\ Cardinality(eventsOf(stage, "active")) = 1
    /\ Cardinality(terminalEvents(stage)) = 1
    /\ \A i \in eventsOf(stage, "active"), j \in terminalEvents(stage) : i < j

\* C34 (as claimed): when processPayment returns, every stage the run entered has
\* reported 'active' and then exactly one of 'completed' and 'failed'.
C34_Original ==
    (inPipeline /\ pc = "done") =>
        \A stage \in Stages : eventsOf(stage, "active") # {} => reportedOnce(stage)

\* some user currently has h as their active committed rule hash
activeFor(h) ==
    \E user \in DOMAIN ruleCommitments :
        isRuleActive(ruleCommitments, user) /\ getUserRuleHash(ruleCommitments, user) = h

\* C37 (as claimed): verifyRuleHash(h) is true exactly when at least one user
\* currently has h as their active committed rule hash.
C37_Original ==
    fn = "RuleCommitment" =>
        \A h \in CommitHashes \ {ZeroHash} : verifyRuleHash(ruleExists, h) <=> activeFor(h)

\* C35 (as claimed): once verifyAndAuthorizePayment has stored paymentProofs[proofId],
\* no later call changes any field of that record.
C35_Original ==
    [][fn = "ZKPVerifier" =>
          \A id \in DOMAIN paymentProofs :
              id \in DOMAIN paymentProofs' /\ paymentProofs'[id] = paymentProofs[id]]_vars

\* C36: the verified flag of a proof id never goes back to false; a call with a
\* verified proof id or with proofId = 0 reverts and leaves paymentProofs and
\* userProofs as they were.
C36_VerifiedIsMonotonic ==
    [][fn = "ZKPVerifier" =>
          /\ \A id \in ProofIds :
                 isProofVerified(paymentProofs, id) => isProofVerified(paymentProofs', id)
          /\ (arg'.proofId = ZeroId \/ isProofVerified(paymentProofs, arg'.proofId)) =>
                 /\ out'[1].reverted
                 /\ paymentProofs' = paymentProofs
                 /\ userProofs' = userProofs]_vars
C36_Witness ==
    /\ fn = "ZKPVerifier" /\ Len(out) = 1
    /\ out[1].reverted
    /\ isProofVerified(paymentProofs, arg.proofId)
    /\ arg.publicSignals # paymentProofs[arg.proofId].publicSignals

\* C39 (as claimed): a result with success = false and a status other than
\* 'payment_failed' means that executePayment was not invoked or did not succeed.
C39_Original ==
    (inPipeline /\ pc = "done" /\ ~result.success /\ result.status # "payment_failed") =>
        ~(paymentResult.called /\ paymentResult.success)

\* C38 (as claimed): validateRulesManually returns the overall validity that the
\* circuit path yields as isValid.
C38_Original ==
    evaluated("validateRulesManually") => out[1][1] = out[1][2]


====
